---- MODULE Spec2Model ----
(***************************************************************************)
(* Model of srtlangdetect.py: the command line (parse_args,                *)
(* check_valid_percentage), the file loop of main, the per-file pipeline   *)
(* lang_detect_srt, the filename tokenizer get_filename_language and the   *)
(* filename builder get_new_filename with its collision probe.             *)
(*                                                                         *)
(* A file name is the sequence of its "."-separated tokens, so             *)
(* name.split(".") and ".".join(tokens) are the two directions of the same *)
(* representation.  All files live in one directory; a path is the name in *)
(* that directory.  Python's False returned by the ISO-639 helpers is the  *)
(* empty string here, and the empty file name <<>> stands for "no file".   *)
(***************************************************************************)
EXTENDS Integers, Sequences, FiniteSets, TLC

(***************************************************************************)
(* Bounds of the model.                                                    *)
(***************************************************************************)
\* most files on disk when a run over several files starts
MaxFiles == 3
\* most positional arguments (args.srt) of such a run
MaxArgs == 2
\* most files beside the one looked at, in the runs that vary every option
MaxBystanders == 1

(***************************************************************************)
(* Strings: length, lower-casing and the two regular expressions, by table *)
(* over the tokens that occur.                                             *)
(***************************************************************************)
OrdinalStr == <<"1", "2", "3", "4", "5", "6">>

\* str(i) for i >= 1
Str(i) == OrdinalStr[i]

Len1Tokens == {"1", "2", "3", "4", "5", "6", "."}
Len2Tokens == {"en", "es", "EN", "cc", "un", "qq"}
Len3Tokens == {"srt", "SRT", "sdh", "eng", "spa", "ENG", "unk", "und"}

\* len(part)
StrLen(t) ==
    CASE t \in Len1Tokens -> 1
      [] t \in Len2Tokens -> 2
      [] t \in Len3Tokens -> 3
      [] t = "2019" -> 4
      [] t = "movie" -> 5
      [] t \in {"forced", "nofile"} -> 6
      [] OTHER -> 7

\* part.lower()
Lower(t) ==
    CASE t = "EN" -> "en"
      [] t = "ENG" -> "eng"
      [] t = "SRT" -> "srt"
      [] OTHER -> t

\* re.match(r"\d+", part): the token starts with a digit
MatchDigits(t) == t \in {"1", "2", "3", "4", "5", "6", "2019"}

\* re.match(r"^\d{1,2}$", part): the token is one or two digits
MatchCountMutant(t) == MatchDigits(t)
MatchCount(t) == t \in {"1", "2", "3", "4", "5", "6"}

(***************************************************************************)
(* The ISO-639 service, bounded to English, Spanish and one code whose     *)
(* name is "Unknown".                                                      *)
(***************************************************************************)
\* iso639.is_valid639_1(l) or iso639.is_valid639_2(l)
IsValid639(l) == l \in {"en", "es", "eng", "spa"}

\* to_2_letter_lang
to_2_letter_lang(l) ==
    CASE l \in {"en", "eng"} -> "en"
      [] l \in {"es", "spa"} -> "es"
      [] OTHER -> ""

\* to_3_letter_lang
to_3_letter_lang(l) ==
    CASE l \in {"en", "eng"} -> "eng"
      [] l \in {"es", "spa"} -> "spa"
      [] OTHER -> ""

\* to_lang_name
to_lang_name(l) ==
    CASE l \in {"en", "eng"} -> "English"
      [] l \in {"es", "spa"} -> "Spanish"
      [] l = "und" -> "Unknown"
      [] OTHER -> ""

(***************************************************************************)
(* check_valid_percentage: TRUE when the value is returned, FALSE when     *)
(* argparse.ArgumentTypeError is raised.                                   *)
(***************************************************************************)
check_valid_percentage(ivalue) == ~(0 <= ivalue /\ ivalue <= 100)

(***************************************************************************)
(* get_filename_language                                                   *)
(***************************************************************************)
RECURSIVE ScanLanguage(_, _, _)
\* the loop over the reversed tokens: k is the token visited, st the locals
ScanLanguage(name, k, st) ==
    IF k = 0 THEN st
    ELSE LET part == name[k] IN
         IF Lower(part) = "srt" THEN ScanLanguage(name, k - 1, st)
         ELSE IF Lower(part) = "forced"
              THEN ScanLanguage(name, k - 1, [st EXCEPT !.forced = TRUE])
         ELSE IF Lower(part) = "cc"
              THEN ScanLanguage(name, k - 1, [st EXCEPT !.special = "cc"])
         ELSE IF Lower(part) = "sdh"
              THEN ScanLanguage(name, k - 1, [st EXCEPT !.special = "sdh"])
         ELSE IF StrLen(part) = 2 \/ StrLen(part) = 3
              THEN ScanLanguage(name, k - 1, [st EXCEPT !.sub_lang = Lower(part)])
         ELSE IF MatchDigits(part) THEN ScanLanguage(name, k - 1, st)
         ELSE st

get_filename_language(full_path) ==
    LET st == ScanLanguage(full_path, Len(full_path),
                           [forced |-> FALSE, special |-> "", sub_lang |-> "Unknown"])
        sub_lang == IF StrLen(st.sub_lang) = 2 \/ StrLen(st.sub_lang) = 3
                    THEN (IF IsValid639(st.sub_lang) THEN st.sub_lang ELSE "Unknown")
                    ELSE "Unknown"
    IN  [sub_lang |-> sub_lang, special |-> st.special, forced |-> st.forced]

(***************************************************************************)
(* get_new_filename                                                        *)
(***************************************************************************)
\* one of the parts the builder removes and reconstructs
Removable(part, language, file_language) ==
    \/ Lower(part) = "srt"
    \/ Lower(part) = "forced"
    \/ MatchCount(part)
    \/ Lower(part) = "sdh"
    \/ Lower(part) = "cc"
    \/ part = file_language
    \/ part = language

RECURSIVE StripParts(_, _, _)
\* the removal loop: trailing parts go until the first one not recognised
StripParts(name, language, file_language) ==
    IF name = <<>> THEN <<>>
    ELSE IF Removable(name[Len(name)], language, file_language)
         THEN StripParts(SubSeq(name, 1, Len(name) - 1), language, file_language)
         ELSE name

\* the name assembled for ordinal i
Assemble(title, i, language, special, forced) ==
    title
    \o (IF i >= 1 THEN <<Str(i)>> ELSE <<>>)
    \o <<language>>
    \o (IF special /= "" THEN <<special>> ELSE <<>>)
    \o (IF forced THEN <<"forced">> ELSE <<>>)
    \o <<"srt">>

\* i = 0 before the while loop
ProbeStartMutant == 0 + 1
ProbeStart == 0

\* the probe's test of the assembled name: stop or increment
ProbeStopsMutant(new_filename, full_path, disk) == TRUE
ProbeStops(new_filename, full_path, disk) ==
    \/ full_path = new_filename
    \/ new_filename \notin disk

RECURSIVE Probe(_, _, _, _, _, _, _, _)
\* the while loop: tried is the list of ordinals assembled so far
Probe(title, i, tried, full_path, language, special, forced, disk) ==
    LET new_filename == Assemble(title, i, language, special, forced) IN
    IF ProbeStops(new_filename, full_path, disk)
    THEN [new_filename |-> new_filename, i |-> i, tried |-> Append(tried, i),
          title |-> title]
    ELSE Probe(title, i + 1, Append(tried, i), full_path, language, special,
               forced, disk)

get_new_filename(full_path, language, file_language, special, forced, disk) ==
    Probe(StripParts(full_path, language, file_language), ProbeStart, <<>>,
          full_path, language, special, forced, disk)

(***************************************************************************)
(* lang_detect_srt: the decision pipeline                                  *)
(***************************************************************************)
\* int(new_language_confidence): the confidence is kept in tenths of a percent
IntOf(conf) == conf \div 10

\* the resolved language code (new_language)
NewLanguage(code, three_letter) ==
    IF to_lang_name(code) = "Unknown"
    THEN (IF three_letter THEN "unk" ELSE "un")
    ELSE (IF three_letter THEN to_3_letter_lang(code) ELSE to_2_letter_lang(code))

\* the first SDH test: the marker becomes "sdh"
MarkSdh(sdh_confidence, special_subs, args, verbose) ==
    IF /\ sdh_confidence >= args.min_sdh_confidence
       /\ sdh_confidence <= args.max_sdh_confidence
       /\ special_subs /= "sdh"
    THEN (IF verbose THEN "sdh" ELSE special_subs)
    ELSE special_subs

\* the second SDH test: the marker is removed
RemoveSdh(sdh_confidence, special_subs, args, verbose) ==
    IF sdh_confidence <= args.reject_sdh_confidence /\ special_subs = "sdh"
    THEN (IF verbose THEN "" ELSE special_subs)
    ELSE special_subs

\* special_subs after both tests, in the order of the code
Hysteresis(sdh_confidence, special_subs, args, verbose) ==
    RemoveSdh(sdh_confidence,
              MarkSdh(sdh_confidence, special_subs, args, verbose), args, verbose)

\* keep_langs: args.keep_only normalised to the code length, invalid codes dropped
KeepLangs(args) ==
    LET norm(l) == IF args.three_letter THEN to_3_letter_lang(Lower(l))
                   ELSE to_2_letter_lang(Lower(l))
    IN  {norm(args.keep_only[j]) : j \in 1..Len(args.keep_only)} \ {""}

\* int(new_language_confidence) >= args.require_lang_confidence
Confident(conf, args) == IntOf(conf) >= args.require_lang_confidence

\* the keep-only test that ends in a delete
KeepOnlyDeletesMutant(new_language, conf, args) ==
    /\ args.keep_only /= <<>>
    /\ new_language \notin KeepLangs(args)
KeepOnlyDeletes(new_language, conf, args) ==
    /\ args.keep_only /= <<>>
    /\ new_language \notin KeepLangs(args)
    /\ Confident(conf, args)

\* what the last part of lang_detect_srt does or, in a dry run, reports
ActionOf(file, new_filename, new_language, new_lang_name, conf, dry_run, args) ==
    IF KeepOnlyDeletes(new_language, conf, args) THEN "Delete"
    ELSE IF new_filename = file THEN "NoChange"
    ELSE IF Confident(conf, args)
         THEN (IF dry_run THEN "Rename"
               ELSE IF new_lang_name /= "Unknown" THEN "Rename"
               ELSE "SkipUnknown")
         ELSE "SkipConfidence"

\* the locals of lang_detect_srt once the subtitles are read and classified
Decide(file, summary, dry_run, quiet, verbose, args, cls, disk) ==
    LET parsed == get_filename_language(file)
        new_lang_name == to_lang_name(cls.code)
        new_language == NewLanguage(cls.code, args.three_letter)
        special_subs == Hysteresis(cls.sdh, parsed.special, args, verbose)
        built == get_new_filename(file, new_language, parsed.sub_lang,
                                  special_subs, parsed.forced, disk)
    IN  [file_language |-> parsed.sub_lang,
         parsed_special |-> parsed.special,
         forced_subs |-> parsed.forced,
         new_lang_name |-> new_lang_name,
         new_language |-> new_language,
         special_subs |-> special_subs,
         title |-> built.title,
         i |-> built.i,
         tried |-> built.tried,
         new_filename |-> built.new_filename,
         action |-> ActionOf(file, built.new_filename, new_language,
                             new_lang_name, cls.conf, dry_run, args)]

\* the filesystem calls are made only when this holds
ExecutesMutant(dry_run) == TRUE
Executes(dry_run) == ~dry_run

(***************************************************************************)
(* The inputs of a run: the files on disk with what reading them gives,    *)
(* and the command line.                                                   *)
(***************************************************************************)
\* the directory all files live in, and a path that names nothing
DirPath == <<".">>
MissingPath == <<"nofile", "srt">>

\* names a file on disk may have when the run starts
Names ==
    { <<"movie", "srt">>,
      <<"movie", "en", "srt">>,
      <<"movie", "es", "srt">>,
      <<"movie", "1", "es", "srt">>,
      <<"movie", "es", "sdh", "srt">>,
      <<"movie", "2019", "es", "srt">>,
      <<"movie", "EN", "forced", "SRT">> }

\* what decoding, srt.parse, langid.classify and percent_sdh give for a file,
\* which is a function of its bytes: outcome "bad" is a file that cannot be
\* decoded or parsed, "empty" one without subtitles; conf is
\* classification[1] * 100 in tenths, sdh is percent_sdh * 100
Codes == {"en", "es", "und"}
Confs == {499, 805}
Sdhs == {1, 50, 90}
Reads ==
    [outcome : {"ok"}, code : Codes, conf : Confs, sdh : Sdhs]
    \cup {[outcome |-> o, code |-> "", conf |-> 0, sdh |-> 0] : o \in {"bad", "empty"}}

\* confident subtitles without SDH markup, in the given language
PlainRead(code) == [outcome |-> "ok", code |-> code, conf |-> 805, sdh |-> 90]

RECURSIVE SeqsUpTo(_, _)
\* the sequences over S of length at most n
SeqsUpTo(S, n) ==
    IF n = 0 THEN {<<>>}
    ELSE LET shorter == SeqsUpTo(S, n - 1)
         IN  shorter \cup {Append(q, x) : q \in shorter, x \in S}

\* values given to a percentage option; <<>> is the option left out
PctValues == {-1, 0, 100, 101}
PctArgs == {<<>>} \cup {<<v>> : v \in PctValues}

\* values of --keep-only; <<>> is the option left out (None)
KeepOnlyArgs == {<<>>, <<"ENG", "qq">>}

\* the command lines over the given option values; --two-letter is parsed
\* and never read
ArgvsOver(renames, keeps, requires, mins, maxs, rejects, threes, summaries, quiets, verboses, srts) ==
    { a \in [rename_files : renames,
             keep_only : keeps,
             require_lang_confidence : requires,
             min_sdh_confidence : mins,
             max_sdh_confidence : maxs,
             reject_sdh_confidence : rejects,
             three_letter : threes,
             summary : summaries,
             quiet : quiets,
             verbose : verboses,
             srt : srts] :
        ~(a.quiet /\ a.verbose) }

(***************************************************************************)
(* State                                                                   *)
(***************************************************************************)
VARIABLES
    pc,         \* "start", "rejected", "run", "done" or "aborted"
    argv,       \* the command line
    args,       \* the namespace parse_args returns
    fs,         \* the files on disk: name |-> what reading the file gives
    queue,      \* the rest of args.srt in main's loop
    walk,       \* the rest of the files of the directory being walked
    last,       \* the locals of the latest call of lang_detect_srt
    prev,       \* what is kept of the call before it
    clobbered   \* names that os.rename replaced while a file had them

vars == <<pc, argv, args, fs, queue, walk, last, prev, clobbered>>

\* the defaults of parse_args
DefaultArgs ==
    [dry_run |-> TRUE, keep_only |-> <<>>, require_lang_confidence |-> 50,
     min_sdh_confidence |-> 5, max_sdh_confidence |-> 85,
     reject_sdh_confidence |-> 1, three_letter |-> FALSE, summary |-> FALSE,
     quiet |-> FALSE, verbose |-> FALSE, srt |-> <<>>]

\* no call of lang_detect_srt yet
NoCall ==
    [file |-> <<>>, outcome |-> "none", code |-> "", conf |-> 0, sdh |-> 0,
     file_language |-> "", parsed_special |-> "", forced_subs |-> FALSE,
     new_lang_name |-> "", new_language |-> "", special_subs |-> "",
     title |-> <<>>, i |-> 0, tried |-> <<>>, new_filename |-> <<>>,
     action |-> "none", executed |-> FALSE, failed |-> FALSE, disk |-> {}]

\* what is kept of a call for the next one
Summary(l) ==
    [file |-> l.file, new_filename |-> l.new_filename, title |-> l.title,
     new_language |-> l.new_language, special_subs |-> l.special_subs,
     forced_subs |-> l.forced_subs, i |-> l.i, conf |-> l.conf,
     outcome |-> l.outcome, action |-> l.action, executed |-> l.executed,
     failed |-> l.failed, disk |-> l.disk]

NoSummary == Summary(NoCall)

\* the percentage options given on the command line
GivenPcts(a) ==
    {a.require_lang_confidence, a.min_sdh_confidence, a.max_sdh_confidence,
     a.reject_sdh_confidence} \ {<<>>}

\* how many percentage options the command line gives
CountPcts(a) ==
    Len(a.require_lang_confidence) + Len(a.min_sdh_confidence)
    + Len(a.max_sdh_confidence) + Len(a.reject_sdh_confidence)

\* the state before parse_args, for a disk and a command line
Start(disk, a) ==
    /\ pc = "start"
    /\ fs = disk
    /\ argv = a
    /\ args = DefaultArgs
    /\ queue = <<>>
    /\ walk = <<>>
    /\ last = NoCall
    /\ prev = NoSummary
    /\ clobbered = {}

\* runs over several files with confident subtitles in two languages: only
\* --rename-files varies, and --require-lang-confidence is left out or given
\* a value argparse refuses
Init ==
    \E names \in SUBSET Names :
        /\ Cardinality(names) <= MaxFiles
        /\ \E disk \in [names -> {PlainRead("en"), PlainRead("es")}] :
           \E a \in ArgvsOver(BOOLEAN, {<<>>}, {<<>>, <<100>>}, {<<>>}, {<<>>},
                              {<<>>}, {FALSE}, {FALSE}, {FALSE}, {FALSE},
                              SeqsUpTo(names \cup {DirPath, MissingPath}, MaxArgs)) :
               Start(disk, a)

\* files that may lie beside the one looked at
Bystanders == {<<"movie", "es", "srt">>, <<"movie", "1", "es", "srt">>}

\* the values of a percentage option in the runs below: one argparse refuses
\* and one it takes
EnginePcts == {<<>>, <<100>>, <<101>>}

\* runs over one file with any content and at most one positional argument:
\* every option varies, with at most one percentage option on a command line,
\* and --summary and --quiet only on command lines without one
InitEngine ==
    \E subject \in Names, rd \in Reads, others \in SUBSET Bystanders :
        /\ Cardinality(others) <= MaxBystanders
        /\ subject \notin others
        /\ \E a \in ArgvsOver(BOOLEAN, KeepOnlyArgs, EnginePcts, EnginePcts,
                              EnginePcts, EnginePcts, BOOLEAN, BOOLEAN, BOOLEAN,
                              BOOLEAN,
                              SeqsUpTo({subject, DirPath, MissingPath}, 1)) :
               /\ CountPcts(a) <= 1
               /\ CountPcts(a) = 1 => ~a.summary /\ ~a.quiet
               /\ Start([n \in {subject} \cup others |->
                         IF n = subject THEN rd ELSE PlainRead("es")], a)

\* runs over one file where every percentage option varies
InitArgs ==
    \E rd \in {PlainRead("es"), [PlainRead("es") EXCEPT !.sdh = 50]} :
        \E a \in ArgvsOver(BOOLEAN, {<<>>}, PctArgs, PctArgs, PctArgs, PctArgs,
                           {FALSE}, {FALSE}, {FALSE}, BOOLEAN,
                           SeqsUpTo({<<"movie", "srt">>, DirPath, MissingPath}, 1)) :
            Start([n \in {<<"movie", "srt">>} |-> rd], a)

(***************************************************************************)
(* parse_args                                                              *)
(***************************************************************************)
\* argparse applies type= to every value given; defaults are not converted
Accepted(a) == \A v \in GivenPcts(a) : check_valid_percentage(v[1])

\* an option's value: the one given, or the default
Opt(given, default) == IF given = <<>> THEN default ELSE given[1]

Namespace(a) ==
    [dry_run |-> ~a.rename_files,
     keep_only |-> a.keep_only,
     require_lang_confidence |->
         Opt(a.require_lang_confidence, DefaultArgs.require_lang_confidence),
     min_sdh_confidence |-> Opt(a.min_sdh_confidence, DefaultArgs.min_sdh_confidence),
     max_sdh_confidence |-> Opt(a.max_sdh_confidence, DefaultArgs.max_sdh_confidence),
     reject_sdh_confidence |->
         Opt(a.reject_sdh_confidence, DefaultArgs.reject_sdh_confidence),
     three_letter |-> a.three_letter,
     summary |-> a.summary,
     quiet |-> a.quiet,
     verbose |-> a.verbose,
     srt |-> a.srt]

\* parse_args returns
ParseArgs ==
    /\ pc = "start"
    /\ Accepted(argv)
    /\ args' = Namespace(argv)
    /\ queue' = argv.srt
    /\ pc' = "run"
    /\ UNCHANGED <<argv, fs, walk, last, prev, clobbered>>

\* a type= function raises: argparse prints the error and exits
ParseArgsError ==
    /\ pc = "start"
    /\ ~Accepted(argv)
    /\ pc' = "rejected"
    /\ UNCHANGED <<argv, args, fs, queue, walk, last, prev, clobbered>>

(***************************************************************************)
(* lang_detect_srt as called by main                                       *)
(***************************************************************************)
\* where main is after the call: an exception of os.remove or os.rename is
\* caught nowhere, neither in lang_detect_srt nor in main
AfterCallMutant(failed) == "run"
AfterCall(failed) == IF failed THEN "aborted" ELSE "run"

\* os.remove(file)
Remove(disk, file) == [n \in DOMAIN disk \ {file} |-> disk[n]]

\* os.rename(file, new_filename)
Rename(disk, file, new_filename) ==
    [n \in (DOMAIN disk \ {file}) \cup {new_filename} |->
        IF n = new_filename THEN disk[file] ELSE disk[n]]

\* the call's locals for a file that gave no subtitles
Unread(file, rd) ==
    [NoCall EXCEPT !.file = file, !.outcome = rd.outcome, !.disk = DOMAIN fs]

\* the call's locals for a file that was classified; d is Decide's record
Locals(file, rd, d, executed, failed) ==
    [file |-> file, outcome |-> "ok", code |-> rd.code, conf |-> rd.conf,
     sdh |-> rd.sdh, file_language |-> d.file_language,
     parsed_special |-> d.parsed_special, forced_subs |-> d.forced_subs,
     new_lang_name |-> d.new_lang_name, new_language |-> d.new_language,
     special_subs |-> d.special_subs, title |-> d.title, i |-> d.i,
     tried |-> d.tried, new_filename |-> d.new_filename, action |-> d.action,
     executed |-> executed, failed |-> failed, disk |-> DOMAIN fs]

\* one call lang_detect_srt(file, args.summary, args.dry_run, args.quiet,
\* args.verbose, args)
LangDetectSrt(file) ==
    IF fs[file].outcome /= "ok"
    THEN /\ last' = Unread(file, fs[file])
         /\ pc' = AfterCall(FALSE)
         /\ UNCHANGED <<fs, clobbered>>
    ELSE \E d \in {Decide(file, args.summary, args.dry_run, args.quiet,
                          args.verbose, args, fs[file], DOMAIN fs)} :
         IF Executes(args.dry_run) /\ d.action \in {"Delete", "Rename"}
         THEN \* the filesystem call succeeds, or raises OSError
              \/ /\ last' = Locals(file, fs[file], d, TRUE, FALSE)
                 /\ fs' = IF d.action = "Delete" THEN Remove(fs, file)
                          ELSE Rename(fs, file, d.new_filename)
                 /\ clobbered' =
                        IF d.action = "Rename" /\ d.new_filename \in DOMAIN fs
                        THEN clobbered \cup {d.new_filename}
                        ELSE clobbered
                 /\ pc' = AfterCall(FALSE)
              \/ /\ last' = Locals(file, fs[file], d, TRUE, TRUE)
                 /\ pc' = AfterCall(TRUE)
                 /\ UNCHANGED <<fs, clobbered>>
         ELSE /\ last' = Locals(file, fs[file], d, FALSE, FALSE)
              /\ pc' = AfterCall(FALSE)
              /\ UNCHANGED <<fs, clobbered>>

(***************************************************************************)
(* main                                                                    *)
(***************************************************************************)
\* file.endswith(".srt")
EndsWithSrt(file) == file[Len(file)] = "srt"

\* the orders in which os.walk may list the files of a set
Orders(S) ==
    {q \in [1..Cardinality(S) -> S] : \A x \in S : \E j \in DOMAIN q : q[j] = x}

\* len(args.srt) == 0
NoFiles ==
    /\ pc = "run" /\ args.srt = <<>>
    /\ pc' = "done"
    /\ UNCHANGED <<argv, args, fs, queue, walk, last, prev, clobbered>>

\* os.path.isfile(srt): the file is handed to lang_detect_srt
CallOnFile ==
    /\ pc = "run" /\ walk = <<>> /\ queue /= <<>>
    /\ Head(queue) \in DOMAIN fs
    /\ LangDetectSrt(Head(queue))
    /\ prev' = Summary(last)
    /\ queue' = Tail(queue)
    /\ UNCHANGED <<argv, args, walk>>

\* os.path.isdir(srt): os.walk lists the directory
WalkDir ==
    /\ pc = "run" /\ walk = <<>> /\ queue /= <<>>
    /\ Head(queue) = DirPath
    /\ \E order \in Orders({f \in DOMAIN fs : EndsWithSrt(f)}) : walk' = order
    /\ queue' = Tail(queue)
    /\ UNCHANGED <<pc, argv, args, fs, last, prev, clobbered>>

\* the next file the walk listed is handed to lang_detect_srt
CallOnWalked ==
    /\ pc = "run" /\ walk /= <<>>
    /\ LangDetectSrt(Head(walk))
    /\ prev' = Summary(last)
    /\ walk' = Tail(walk)
    /\ UNCHANGED <<argv, args, queue>>

\* neither a file nor a directory: "doesn't exist" is printed
NotExists ==
    /\ pc = "run" /\ walk = <<>> /\ queue /= <<>>
    /\ Head(queue) \notin DOMAIN fs /\ Head(queue) /= DirPath
    /\ queue' = Tail(queue)
    /\ UNCHANGED <<pc, argv, args, fs, walk, last, prev, clobbered>>

\* the loop over args.srt ends and main returns
Finish ==
    /\ pc = "run" /\ args.srt /= <<>> /\ walk = <<>> /\ queue = <<>>
    /\ pc' = "done"
    /\ UNCHANGED <<argv, args, fs, queue, walk, last, prev, clobbered>>

Next ==
    \/ ParseArgs
    \/ ParseArgsError
    \/ NoFiles
    \/ CallOnFile
    \/ WalkDir
    \/ CallOnWalked
    \/ NotExists
    \/ Finish

Spec == Init /\ [][Next]_vars

SpecEngine == InitEngine /\ [][Next]_vars

SpecArgs == InitArgs /\ [][Next]_vars

(***************************************************************************)
(* Properties                                                              *)
(***************************************************************************)
\* the latest call read and classified its file
Decided == last.outcome = "ok"

\* the run is live: --rename-files was given
Live == pc /= "start" /\ ~args.dry_run

\* C1: in a dry run (no --rename-files) no step of the run changes the files
\* on disk or their names, and no call executes os.remove or os.rename,
\* whatever the files, classifications, SDH scores, thresholds and keep-only
C1_DryRunTouchesNothing ==
    [][~argv.rename_files => (fs' = fs /\ ~last'.executed /\ clobbered' = {})]_vars

\* a dry run reported a delete or a rename and left the file in place
C1_Witness ==
    /\ ~argv.rename_files /\ pc = "done"
    /\ last.action \in {"Delete", "Rename"}
    /\ last.file \in DOMAIN fs

\* C2: in live mode an executed rename has a target that differs from the
\* source and is not on disk when os.rename is called, so no file is ever
\* overwritten, and the probe tries the ordinals 0, 1, 2, ... in this order
C2_RenameNeverOverwrites ==
    /\ (last.action = "Rename" /\ last.executed) =>
           /\ last.new_filename /= last.file
           /\ last.new_filename \notin last.disk
    /\ clobbered = {}
    /\ Decided =>
           /\ Len(last.tried) = last.i + 1
           /\ \A j \in 1..Len(last.tried) : last.tried[j] = j - 1

\* a rename was executed after the probe stepped over a name that exists
C2_Witness ==
    /\ Live /\ last.action = "Rename" /\ last.executed /\ ~last.failed
    /\ last.i >= 1
    /\ last.new_filename \in DOMAIN fs

\* the file of a call ends the call under its new_filename: the gate let it
\* through and it was renamed, or its name needed no change
Settled(c) ==
    /\ c.outcome = "ok" /\ ~c.failed
    /\ IntOf(c.conf) >= args.require_lang_confidence
    /\ \/ c.action = "NoChange"
       \/ c.action = "Rename" /\ c.executed

\* the latest two calls were on two files of the same canonical base
SameBaseTwice ==
    /\ Live /\ Settled(prev) /\ Settled(last)
    /\ last.file /= prev.new_filename
    /\ last.title = prev.title
    /\ last.new_language = prev.new_language
    /\ last.special_subs = prev.special_subs
    /\ last.forced_subs = prev.forced_subs

\* the names of the canonical base of call c, for every ordinal
BaseNames(c) ==
    {Assemble(c.title, j, c.new_language, c.special_subs, c.forced_subs) :
        j \in 0..Len(OrdinalStr)}

Titles == {<<"movie">>, <<"movie", "2019">>}
CanonicalParts ==
    [title : Titles, i : 0..Len(OrdinalStr), lang : {"en", "es", "eng", "spa"},
     special : {"", "sdh", "cc"}, forced : BOOLEAN]
NameOf(r) == Assemble(r.title, r.i, r.lang, r.special, r.forced)
CanonicalNames == {NameOf(r) : r \in CanonicalParts}
PartsByName == [n \in CanonicalNames |-> {r \in CanonicalParts : NameOf(r) = n}]
PartsOf(name) == IF name \in CanonicalNames THEN PartsByName[name] ELSE {}

\* the latest call was on a canonical name whose language, special marker
\* and forced flag it resolved to the ones in the name
CanonicalAgain ==
    /\ Decided
    /\ last.new_language = last.file_language
    /\ last.special_subs = last.parsed_special
    /\ last.file \in CanonicalNames

\* C4 as stated: such a file gets its own path back and the call ends in
\* NoChange, whatever else is on disk
C4_Original ==
    CanonicalAgain =>
        /\ last.new_filename = last.file
        /\ last.action = "NoChange"

\* every name of the file's base with a lower ordinal is on disk
LowerOrdinalsTaken ==
    \A r \in PartsOf(last.file) :
        \A j \in 0..(r.i - 1) : NameOf([r EXCEPT !.i = j]) \in last.disk

\* C4 as amended: the same when the keep-only filter does not delete the
\* file and every name of its base with a lower ordinal is on disk
C4_Amended ==
    (CanonicalAgain /\ last.action /= "Delete" /\ LowerOrdinalsTaken) =>
        /\ last.new_filename = last.file
        /\ last.action = "NoChange"
        /\ DOMAIN fs = last.disk

\* a name with ordinal 1 behind the name without ordinal was left as it is
C4_Witness ==
    /\ CanonicalAgain /\ last.action = "NoChange"
    /\ last.i = 1
    /\ \E r \in PartsOf(last.file) : r.i = 1

\* the resolved language is one of the valid --keep-only languages
InKeepOnly ==
    \E j \in 1..Len(args.keep_only) :
        /\ IsValid639(Lower(args.keep_only[j]))
        /\ to_lang_name(Lower(args.keep_only[j])) = to_lang_name(last.new_language)

\* C5: with --keep-only the call ends in Delete exactly when the resolved
\* language is not among the valid keep-only languages and the integer
\* confidence reaches --require-lang-confidence, also when the name would not
\* change; the delete is executed in live mode and only reported in a dry run
C5_KeepOnlyDelete ==
    Decided =>
        /\ last.action = "Delete" <=>
               /\ args.keep_only /= <<>>
               /\ ~InKeepOnly
               /\ last.conf >= 10 * args.require_lang_confidence
        /\ (last.action = "Delete" /\ ~args.dry_run /\ ~last.failed) =>
               last.file \notin DOMAIN fs
        /\ (last.action = "Delete" /\ args.dry_run) => last.file \in DOMAIN fs

\* a file whose name would not change was deleted in live mode
C5_Witness ==
    /\ Decided /\ last.action = "Delete" /\ last.executed /\ ~last.failed
    /\ last.new_filename = last.file
    /\ last.file \notin DOMAIN fs

\* C6 as stated: a file the keep-only filter leaves, with a target other
\* than its path, is renamed exactly when the integer confidence reaches the
\* threshold and the language is not Unknown
C6_Claim ==
    (Decided /\ last.action /= "Delete" /\ last.new_filename /= last.file) =>
        (last.action = "Rename" <=>
            /\ last.conf >= 10 * args.require_lang_confidence
            /\ last.new_lang_name /= "Unknown")

\* the special marker the SDH step is to give
HysteresisClaim(sdh, parsed, a) ==
    IF a.min_sdh_confidence <= sdh /\ sdh <= a.max_sdh_confidence /\ parsed /= "sdh"
    THEN "sdh"
    ELSE IF sdh <= a.reject_sdh_confidence /\ parsed = "sdh" THEN ""
    ELSE parsed

\* C7 as stated: with thresholds in 0..100 the marker after the SDH step is
\* SDH for a score in [minSdh, maxSdh] and a parsed marker other than SDH,
\* none for a score <= rejectSdh and a parsed SDH, the parsed one otherwise
C7_Claim ==
    (/\ Decided
     /\ \A t \in {args.min_sdh_confidence, args.max_sdh_confidence,
                  args.reject_sdh_confidence} : 0 <= t /\ t <= 100) =>
        last.special_subs = HysteresisClaim(last.sdh, last.parsed_special, args)

\* the latest call again, with other reporting flags
Rerun(summary, quiet, verbose) ==
    Decide(last.file, summary, args.dry_run, quiet, verbose, args,
           [outcome |-> "ok", code |-> last.code, conf |-> last.conf,
            sdh |-> last.sdh], last.disk)

\* C8 as stated: --summary, --quiet and --verbose change neither the special
\* marker nor the target path nor the action of a call
C8_Claim ==
    Decided =>
        \A summary \in BOOLEAN, quiet \in BOOLEAN, verbose \in BOOLEAN :
            ~(quiet /\ verbose) =>
                LET d == Rerun(summary, quiet, verbose)
                IN  /\ d.special_subs = last.special_subs
                    /\ d.new_filename = last.new_filename
                    /\ d.action = last.action

C10_Claim ==
    /\ pc /= "start" =>
           (pc = "rejected" <=> \E v \in GivenPcts(argv) : v[1] < 0 \/ v[1] > 100)
    /\ pc \in {"run", "done", "aborted"} =>
           \A t \in {args.require_lang_confidence, args.min_sdh_confidence,
                     args.max_sdh_confidence, args.reject_sdh_confidence} :
               0 <= t /\ t <= 100

====
